---- MODULE Spec2Model ----
(***************************************************************************)
(* A model of tensorflow/lite/python/convert.py: the dispatch of a         *)
(* conversion request to the converter backend (toco_convert_protos, in    *)
(* process or through temporary files and a spawned toco_from_protos) and  *)
(* the builders of the request (build_toco_convert_protos,                 *)
(* toco_convert_graph_def).                                                *)
(*                                                                         *)
(* Python values are records [t, v]: None, bytes (a sequence of byte       *)
(* values) and str (a sequence of code points).  Python 3 semantics.       *)
(***************************************************************************)
EXTENDS Integers, Sequences, FiniteSets, TLC

\* Bounds of the model.
NumCallers == 2
MaxCalls == 2

Callers == 1..NumCallers

(***************************************************************************)
(* Python values                                                           *)
(***************************************************************************)
None == [t |-> "None", v |-> <<>>]

Bytes(s) == [t |-> "bytes", v |-> s]

Str(s) == [t |-> "str", v |-> s]

\* bool(x) of None, bytes and str, as used by `if debug_info_str`.
Truthy(x) == x.t # "None" /\ x.v # <<>>

\* An unassigned file name (Python None); file names are positive numbers.
NoName == 0

RECURSIVE Utf8Encode(_)
\* str.encode("utf-8") for code points below U+0800.
Utf8Encode(cps) ==
  IF cps = <<>> THEN <<>>
  ELSE LET cp == Head(cps) IN
       (IF cp < 128 THEN <<cp>>
        ELSE <<192 + (cp \div 64), 128 + (cp % 64)>>) \o Utf8Encode(Tail(cps))

RECURSIVE Utf8Valid(_)
\* Whether bytes.decode("utf-8") succeeds, for one- and two-byte sequences
\* (every lead byte from 0xE0 up is left out of the byte samples but 0xFF,
\* which no UTF-8 text contains).
Utf8Valid(bs) ==
  IF bs = <<>> THEN TRUE
  ELSE LET b == Head(bs) IN
       IF b < 128 THEN Utf8Valid(Tail(bs))
       ELSE IF b >= 194 /\ b <= 223 /\ Len(bs) >= 2
               /\ bs[2] >= 128 /\ bs[2] <= 191
            THEN Utf8Valid(Tail(Tail(bs)))
            ELSE FALSE

RECURSIVE Utf8Decode(_)
\* bytes.decode("utf-8") of a valid sequence.
Utf8Decode(bs) ==
  IF bs = <<>> THEN <<>>
  ELSE LET b == Head(bs) IN
       IF b < 128 THEN <<b>> \o Utf8Decode(Tail(bs))
       ELSE <<(b - 192) * 64 + (bs[2] - 128)>> \o Utf8Decode(Tail(Tail(bs)))

\* six.ensure_binary: bytes pass, str is encoded, anything else is a TypeError.
EnsureBinaryRaises(x) == x.t \notin {"bytes", "str"}

EnsureBinary(x) == IF x.t = "str" THEN Bytes(Utf8Encode(x.v)) ELSE x

HexDigit(n) == IF n < 10 THEN 48 + n ELSE 87 + n

\* One byte of repr(bytes): printable ASCII as it is, the rest escaped.
ReprByte(b) ==
  IF b = 92 THEN <<92, 92>>
  ELSE IF b = 9 THEN <<92, 116>>
  ELSE IF b = 10 THEN <<92, 110>>
  ELSE IF b = 13 THEN <<92, 114>>
  ELSE IF b >= 32 /\ b <= 126 THEN <<b>>
  ELSE <<92, 120, HexDigit(b \div 16), HexDigit(b % 16)>>

RECURSIVE ReprBytesBody(_)
ReprBytesBody(bs) ==
  IF bs = <<>> THEN <<>> ELSE ReprByte(Head(bs)) \o ReprBytesBody(Tail(bs))

\* "%s" % x: a str as it is, bytes as their repr b'...', None as "None".
PercentS(x) ==
  IF x.t = "str" THEN x.v
  ELSE IF x.t = "bytes" THEN <<98, 39>> \o ReprBytesBody(x.v) \o <<39>>
  ELSE <<78, 111, 110, 101>>

\* The captured output is passed on undecoded.
try_convert_to_unicode_undecoded(output) == output

\* _try_convert_to_unicode (lines 68-77)
try_convert_to_unicode(output) ==
  IF output.t = "None" THEN Str(<<>>)
  ELSE IF output.t = "bytes" /\ Utf8Valid(output.v) THEN Str(Utf8Decode(output.v))
  ELSE output

(***************************************************************************)
(* Exceptions and the outcome of a call                                    *)
(***************************************************************************)
Exc(type, args) == [type |-> type, args |-> args]

NoExc == Exc("", <<>>)

\* str(e) of an exception built with no argument or with one str argument.
ExcStr(e) == IF e.args = <<>> THEN <<>> ELSE e.args[1]

\* ConverterError(msg)
ConverterError(msg) == Exc("ConverterError", <<msg>>)

NoOutcome == [kind |-> "none", val |-> None, exc |-> NoExc]

Returned(x) == [kind |-> "return", val |-> x, exc |-> NoExc]

Raised(e) == [kind |-> "raise", val |-> None, exc |-> e]

\* The text of the ConverterError raised when the binary is not found.
GuidanceText == <<
    67, 111, 117, 108, 100, 32, 110, 111, 116, 32, 102, 105, 110, 100, 32, 116, 111, 99,
    111, 95, 102, 114, 111, 109, 95, 112, 114, 111, 116, 111, 115, 32, 98, 105, 110, 97,
    114, 121, 44, 32, 109, 97, 107, 101, 32, 115, 117, 114, 101, 10, 121, 111, 117, 114,
    32, 118, 105, 114, 116, 117, 97, 108, 101, 110, 118, 32, 98, 105, 110, 32, 100, 105,
    114, 101, 99, 116, 111, 114, 121, 32, 111, 114, 32, 112, 105, 112, 32, 108, 111, 99,
    97, 108, 32, 98, 105, 110, 32, 100, 105, 114, 101, 99, 116, 111, 114, 121, 32, 105,
    115, 32, 105, 110, 32, 121, 111, 117, 114, 32, 112, 97, 116, 104, 46, 10, 73, 110,
    32, 112, 97, 114, 116, 105, 99, 117, 108, 97, 114, 44, 32, 105, 102, 32, 121, 111,
    117, 32, 104, 97, 118, 101, 32, 105, 110, 115, 116, 97, 108, 108, 101, 100, 32, 84,
    101, 110, 115, 111, 114, 70, 108, 111, 119, 32, 119, 105, 116, 104, 32, 45, 45, 117,
    115, 101, 114, 44, 32, 109, 97, 107, 101, 32, 115, 117, 114, 101, 32, 121, 111, 117,
    10, 97, 100, 100, 32, 116, 104, 101, 32, 105, 110, 115, 116, 97, 108, 108, 32, 100,
    105, 114, 101, 99, 116, 111, 114, 121, 32, 116, 111, 32, 121, 111, 117, 114, 32, 112,
    97, 116, 104, 46, 10, 10, 70, 111, 114, 32, 101, 120, 97, 109, 112, 108, 101, 58,
    10, 76, 105, 110, 117, 120, 58, 32, 101, 120, 112, 111, 114, 116, 32, 80, 65, 84,
    72, 61, 36, 80, 65, 84, 72, 58, 126, 47, 46, 108, 111, 99, 97, 108, 47, 98,
    105, 110, 47, 10, 77, 97, 99, 58, 32, 101, 120, 112, 111, 114, 116, 32, 80, 65,
    84, 72, 61, 36, 80, 65, 84, 72, 58, 126, 47, 76, 105, 98, 114, 97, 114, 121,
    47, 80, 121, 116, 104, 111, 110, 47, 60, 118, 101, 114, 115, 105, 111, 110, 35, 62,
    47, 98, 105, 110, 10, 10, 65, 108, 116, 101, 114, 110, 97, 116, 105, 118, 101, 44,
    32, 117, 115, 101, 32, 118, 105, 114, 116, 117, 97, 108, 101, 110, 118, 46 >>

\* "See console for info.\n"
SeeConsole == <<
    83, 101, 101, 32, 99, 111, 110, 115, 111, 108, 101, 32, 102, 111, 114, 32, 105, 110,
    102, 111, 46, 10 >>

\* "See console for info.\n%s\n%s\n" % (stdout, stderr)
FailureMessage(stdout, stderr) ==
  SeeConsole \o PercentS(stdout) \o <<10>> \o PercentS(stderr) \o <<10>>

(***************************************************************************)
(* State                                                                   *)
(***************************************************************************)
VARIABLES
  toco_from_proto_bin,  \* the module global _toco_from_proto_bin, set at import
  installed,            \* whether find_executable finds the binary right now
  fs,                   \* the temporary directory: file name -> file
  nextName,             \* the next name tempfile hands out
  ncalls,               \* calls of toco_convert_protos started so far
  cid,                  \* per caller: the number of its current call
  pc,                   \* per caller: its position in toco_convert_protos
  args,                 \* per caller: the arguments of the call
  names,                \* per caller: the local file name variables
  proc,                 \* per caller: the spawned process
  pending,              \* per caller: how the try block is being left
  result,               \* per caller: what the call gave its caller
  obs,                  \* per caller: what the call did (history)
  bargs,                \* the arguments of a request builder
  built                 \* what the request builder gave

vars == <<toco_from_proto_bin, installed, fs, nextName, ncalls, cid, pc, args,
          names, proc, pending, result, obs, bargs, built>>

\* Lines 58-65: "" under EXPERIMENTAL_USE_TOCO_API_DIRECTLY, else the data
\* file path when it exists, else the bare name looked up on the PATH.
ImportBin(use_toco_api_directly, datafile_exists) ==
  IF use_toco_api_directly THEN ""
  ELSE IF datafile_exists THEN "datafile/toco_from_protos"
  ELSE "toco_from_protos"

NoArgs ==
  [model_flags_str |-> None, toco_flags_str |-> None, input_data_str |-> None,
   debug_info_str |-> None, enable_mlir_converter |-> FALSE]

NoNames ==
  [toco_filename |-> NoName, model_filename |-> NoName,
   input_filename |-> NoName, debug_filename |-> NoName,
   output_filename |-> NoName]

NoCmd ==
  [bin |-> "", positional |-> <<>>, debug_proto_file |-> NoName,
   enable_mlir_converter |-> FALSE]

NoProc == [state |-> "none", cmd |-> NoCmd, returncode |-> 0, stdout |-> None]

\* What a call did: the files it created, whether it called the in-process
\* backend, with which arguments and what that did, whether it spawned a
\* process, whether it touched a file of another call, the positions of the
\* cleanup list whose unlink failed, and the function the caller called.
NoObs ==
  [created |-> {}, inproc |-> FALSE, passed |-> NoArgs, backend |-> NoOutcome,
   spawned |-> FALSE, foreign |-> FALSE, swallowed |-> {},
   via |-> "toco_convert_protos"]

\* No request builder is running.
NoBuildArgs == [fn |-> "none"]

NoBuilt == [status |-> "none"]

DispatchInit ==
  /\ \E use_toco_api_directly \in BOOLEAN, datafile_exists \in BOOLEAN :
       /\ toco_from_proto_bin = ImportBin(use_toco_api_directly, datafile_exists)
       /\ installed \in (IF datafile_exists THEN {TRUE} ELSE BOOLEAN)
  /\ fs = <<>>
  /\ nextName = 1
  /\ ncalls = 0
  /\ cid = [c \in Callers |-> 0]
  /\ pc = [c \in Callers |-> "idle"]
  /\ args = [c \in Callers |-> NoArgs]
  /\ names = [c \in Callers |-> NoNames]
  /\ proc = [c \in Callers |-> NoProc]
  /\ pending = [c \in Callers |-> NoOutcome]
  /\ result = [c \in Callers |-> NoOutcome]
  /\ obs = [c \in Callers |-> NoObs]

Init == DispatchInit /\ bargs = NoBuildArgs /\ built = NoBuilt

(***************************************************************************)
(* The file system and tempfile                                            *)
(***************************************************************************)
\* A name that depends on nothing but the file's place in the call.
SharedName(i) == i

\* The name tempfile.NamedTemporaryFile gives its i-th file from here on:
\* a random name that no file has or had.
NewName(i) == nextName + i - 1

\* NamedTemporaryFile(delete=False): an empty file, open for writing.
CreateFile(f, n, owner) ==
  [m \in DOMAIN f \cup {n} |->
     IF m = n THEN [owner |-> owner, content |-> <<>>, open |-> TRUE] ELSE f[m]]

\* fp.write(data) on an open file.
WriteFile(f, n, data) == [f EXCEPT ![n].content = @ \o data]

\* The end of a with block: fp.close().
CloseFile(f, n) == [f EXCEPT ![n].open = FALSE]

RECURSIVE CloseAll(_, _)
CloseAll(f, ns) ==
  IF ns = <<>> THEN f ELSE CloseAll(CloseFile(f, Head(ns)), Tail(ns))

\* try: os.unlink(filename) except (OSError, TypeError): pass
\* unlink(None) is a TypeError and a missing file an OSError: both swallowed.
Unlink(f, n) ==
  IF n = NoName \/ n \notin DOMAIN f THEN f
  ELSE [m \in DOMAIN f \ {n} |-> f[m]]

\* os.unlink(n) raises: TypeError for None, OSError for a missing file.
UnlinkFails(f, n) == n = NoName \/ n \notin DOMAIN f

RECURSIVE UnlinkAll(_, _)
\* The first unlink that fails ends the loop.
UnlinkAllUntilFailure(f, ns) ==
  LET failing == {i \in 1..Len(ns) : UnlinkFails(f, ns[i])}
      done == {i \in 1..Len(ns) : \A j \in failing : i < j}
  IN [m \in DOMAIN f \ {ns[i] : i \in done} |-> f[m]]

\* The for loop of the finally block.
UnlinkAll(f, ns) ==
  IF ns = <<>> THEN f ELSE UnlinkAll(Unlink(f, Head(ns)), Tail(ns))

\* The model-flags file is left out of the cleanup.
CleanupListWithoutModel(nm) ==
  <<nm.toco_filename, nm.input_filename, NoName, nm.output_filename>>

\* The files the finally block unlinks, in its order.
CleanupList(nm) ==
  <<nm.toco_filename, nm.input_filename, nm.model_filename, nm.output_filename>>

\* The binary is looked up where it was when the module was imported.
FindExecutableAtImport(bin, inst) ==
  IF bin = "datafile/toco_from_protos" THEN bin ELSE ""

\* distutils.spawn.find_executable(_toco_from_proto_bin): the path or None.
FindExecutable(bin, inst) == IF inst /\ bin # "" THEN bin ELSE ""

\* The in-process backend is chosen on request only.
UseInProcessOnRequest(a) == a.enable_mlir_converter

\* Line 212: the in-process backend is chosen.
UseInProcess(a) == a.enable_mlir_converter \/ toco_from_proto_bin = ""

\* A file of another call is touched.
Foreign(c, n) == n \in DOMAIN fs /\ fs[n].owner # cid[c]

(***************************************************************************)
(* toco_convert_protos                                                     *)
(***************************************************************************)
\* The entry of a call: the caller binds the arguments.
Enter(c, a) ==
  /\ pc[c] \in {"idle", "saved_model"}
  /\ pc[c] = "saved_model" => a = args[c]
  /\ ncalls < MaxCalls
  /\ ncalls' = ncalls + 1
  /\ cid' = [cid EXCEPT ![c] = ncalls + 1]
  /\ args' = [args EXCEPT ![c] = a]

\* The exception of the backend leaves the call as it is.
InProcessResultUncaught(r) == r

\* Lines 213-220: the try statement around the in-process backend call.
InProcessResult(r) ==
  IF r.kind = "return" THEN r ELSE Raised(ConverterError(ExcStr(r.exc)))

\* Lines 212-220: the in-process backend is called; r is what
\* wrap_toco.wrapped_toco_convert does (returns bytes or raises).
CallInProcess(c, a, r) ==
  /\ Enter(c, a)
  /\ UseInProcess(a)
  /\ result' = [result EXCEPT ![c] = InProcessResult(r)]
  /\ obs' = [obs EXCEPT ![c].inproc = TRUE, ![c].passed = a,
                        ![c].backend = r]
  /\ pc' = [pc EXCEPT ![c] = "done"]
  /\ UNCHANGED <<bargs, built, toco_from_proto_bin, installed, fs, nextName, names, proc,
                 pending>>

\* Lines 222-232: the binary is not found.
CallNotFound(c, a) ==
  /\ Enter(c, a)
  /\ ~UseInProcess(a)
  /\ FindExecutable(toco_from_proto_bin, installed) = ""
  /\ result' = [result EXCEPT ![c] = Raised(ConverterError(GuidanceText))]
  /\ pc' = [pc EXCEPT ![c] = "done"]
  /\ UNCHANGED <<bargs, built, toco_from_proto_bin, installed, fs, nextName, names, proc,
                 pending, obs>>

\* The out-of-process path is taken whatever line 212 finds.
CallOutOfProcessUnguarded(c, a) ==
  /\ Enter(c, a)
  /\ FindExecutable(toco_from_proto_bin, installed) # ""
  /\ names' = [names EXCEPT ![c] = NoNames]
  /\ pc' = [pc EXCEPT ![c] = "open"]
  /\ UNCHANGED <<bargs, built, toco_from_proto_bin, installed, fs, nextName, proc, pending,
                 result, obs>>

\* Lines 222-238: the binary is found, the file names start as None and the
\* try block is entered.
CallOutOfProcess(c, a) ==
  /\ Enter(c, a)
  /\ ~UseInProcess(a)
  /\ FindExecutable(toco_from_proto_bin, installed) # ""
  /\ names' = [names EXCEPT ![c] = NoNames]
  /\ pc' = [pc EXCEPT ![c] = "open"]
  /\ UNCHANGED <<bargs, built, toco_from_proto_bin, installed, fs, nextName, proc, pending,
                 result, obs>>

\* The four files of the with statement, in its order.
InputFileNames == <<NewName(1), NewName(2), NewName(3), NewName(4)>>

RECURSIVE CreateAll(_, _, _)
CreateAll(f, ns, owner) ==
  IF ns = <<>> THEN f
  ELSE CreateAll(CreateFile(f, Head(ns), owner), Tail(ns), owner)

\* Lines 240-247: the with statement opens fp_toco, fp_model, fp_input and
\* fp_debug; k of them open before NamedTemporaryFile raises (k = 4: none
\* does).  A failure leaves through the with statement, which closes the
\* files already open, before any name is recorded.
OpenInputFiles(c, k) ==
  /\ pc[c] = "open"
  /\ LET ns == SubSeq(InputFileNames, 1, k)
         made == CreateAll(fs, ns, cid[c])
     IN /\ nextName' = nextName + k
        /\ obs' = [obs EXCEPT ![c].created = @ \cup {ns[i] : i \in 1..k}]
        /\ IF k = 4
           THEN /\ fs' = made
                /\ names' = [names EXCEPT ![c].toco_filename = ns[1],
                                          ![c].model_filename = ns[2],
                                          ![c].input_filename = ns[3],
                                          ![c].debug_filename = ns[4]]
                /\ pc' = [pc EXCEPT ![c] = "write"]
                /\ UNCHANGED pending
           ELSE /\ fs' = CloseAll(made, ns)
                /\ pending' = [pending EXCEPT ![c] = Raised(Exc("OSError", <<>>))]
                /\ pc' = [pc EXCEPT ![c] = "finally"]
                /\ UNCHANGED names
  /\ UNCHANGED <<bargs, built, toco_from_proto_bin, installed, ncalls, cid, args, proc,
                 result>>

\* Lines 252-264: what fp_debug receives.
DebugBytes(debug_info_str) ==
  LET d == IF Truthy(debug_info_str) THEN debug_info_str ELSE Str(<<>>)
  IN IF d.t # "bytes" THEN Utf8Encode(d.v) ELSE d.v

\* Lines 249-264: the writes, in the order of the code.
InputWrites(c) ==
  <<[name |-> names[c].model_filename, data |-> args[c].model_flags_str.v],
    [name |-> names[c].toco_filename, data |-> args[c].toco_flags_str.v],
    [name |-> names[c].input_filename,
     data |-> EnsureBinary(args[c].input_data_str).v],
    [name |-> names[c].debug_filename,
     data |-> DebugBytes(args[c].debug_info_str)]>>

RECURSIVE WriteAll(_, _)
WriteAll(f, ws) ==
  IF ws = <<>> THEN f
  ELSE WriteAll(WriteFile(f, Head(ws).name, Head(ws).data), Tail(ws))

\* Lines 249-264 and the end of the with statement: j writes succeed before
\* one raises OSError (j = 4: none does); six.ensure_binary raises TypeError
\* on an input that is neither bytes nor str.  The four files are closed on
\* either way out.
WriteInputFiles(c, j) ==
  /\ pc[c] = "write"
  /\ LET bad == EnsureBinaryRaises(args[c].input_data_str)
         n == IF bad /\ j > 2 THEN 2 ELSE j
         ws == InputWrites(c)
         all == <<names[c].toco_filename, names[c].model_filename,
                  names[c].input_filename, names[c].debug_filename>>
     IN /\ fs' = CloseAll(WriteAll(fs, SubSeq(ws, 1, n)), all)
        /\ obs' = [obs EXCEPT ![c].foreign =
                     @ \/ \E i \in 1..4 : Foreign(c, all[i])]
        /\ IF n = 4
           THEN /\ pc' = [pc EXCEPT ![c] = "reserve"]
                /\ UNCHANGED pending
           ELSE /\ pending' = [pending EXCEPT ![c] =
                     Raised(Exc(IF bad /\ j > 2 THEN "TypeError" ELSE "OSError",
                                <<>>))]
                /\ pc' = [pc EXCEPT ![c] = "finally"]
  /\ UNCHANGED <<bargs, built, toco_from_proto_bin, installed, nextName, ncalls, cid, args,
                 names, proc, result>>

\* Lines 266-268: the output file is reserved (ok) or NamedTemporaryFile
\* raises.
ReserveOutput(c, ok) ==
  /\ pc[c] = "reserve"
  /\ IF ok
     THEN /\ fs' = CloseFile(CreateFile(fs, NewName(1), cid[c]), NewName(1))
          /\ nextName' = nextName + 1
          /\ names' = [names EXCEPT ![c].output_filename = NewName(1)]
          /\ obs' = [obs EXCEPT ![c].created = @ \cup {NewName(1)}]
          /\ pc' = [pc EXCEPT ![c] = "launch"]
          /\ UNCHANGED pending
     ELSE /\ pending' = [pending EXCEPT ![c] = Raised(Exc("OSError", <<>>))]
          /\ pc' = [pc EXCEPT ![c] = "finally"]
          /\ UNCHANGED <<fs, nextName, names, obs>>
  /\ UNCHANGED <<bargs, built, toco_from_proto_bin, installed, ncalls, cid, args, proc,
                 result>>

\* The command line with the two flag files in the other order.
BuildCmdSwapped(c) ==
  [bin |-> toco_from_proto_bin,
   positional |-> <<names[c].toco_filename, names[c].model_filename,
                    names[c].input_filename, names[c].output_filename>>,
   debug_proto_file |-> names[c].debug_filename,
   enable_mlir_converter |-> args[c].enable_mlir_converter]

\* Lines 271-280: the command line.
BuildCmd(c) ==
  [bin |-> toco_from_proto_bin,
   positional |-> <<names[c].model_filename, names[c].toco_filename,
                    names[c].input_filename, names[c].output_filename>>,
   debug_proto_file |-> names[c].debug_filename,
   enable_mlir_converter |-> args[c].enable_mlir_converter]

\* The files a command names.
CmdFiles(cmd) == cmd.positional \o <<cmd.debug_proto_file>>

\* Lines 271-288: the command is built and the process started (ok) or
\* Popen raises.
Launch(c, ok) ==
  /\ pc[c] = "launch"
  /\ IF ok
     THEN /\ proc' = [proc EXCEPT ![c] =
                        [state |-> "running", cmd |-> BuildCmd(c),
                         returncode |-> 0, stdout |-> None]]
          /\ obs' = [obs EXCEPT ![c].spawned = TRUE,
                                ![c].foreign =
                                   @ \/ \E i \in 1..5 :
                                          Foreign(c, CmdFiles(BuildCmd(c))[i])]
          /\ pc' = [pc EXCEPT ![c] = "running"]
          /\ UNCHANGED pending
     ELSE /\ pending' = [pending EXCEPT ![c] = Raised(Exc("OSError", <<>>))]
          /\ pc' = [pc EXCEPT ![c] = "finally"]
          /\ UNCHANGED <<proc, obs>>
  /\ UNCHANGED <<bargs, built, toco_from_proto_bin, installed, fs, nextName, ncalls, cid,
                 args, names, result>>

\* The backend process: it may write the output file it was given (wr, None
\* for no write), may remove one of the files it was given (rm, 0 for none),
\* and exits with a code; out is what it printed.  A backend that exits with
\* code 0 leaves its output file in place.  Line 289 (communicate) returns
\* then.
BackendExit(c, code, out, wr, rm) ==
  /\ pc[c] = "running"
  /\ code = 0 => rm # 4
  /\ LET cmd == proc[c].cmd
         o == cmd.positional[4]
         written == IF wr.t = "None" THEN fs
                    ELSE [m \in DOMAIN fs \cup {o} |->
                            IF m = o
                            THEN [owner |-> cid[c], content |-> wr.v,
                                  open |-> FALSE]
                            ELSE fs[m]]
     IN fs' = IF rm = 0 THEN written ELSE Unlink(written, CmdFiles(cmd)[rm])
  /\ proc' = [proc EXCEPT ![c].state = "exited", ![c].returncode = code,
                          ![c].stdout = out]
  /\ pc' = [pc EXCEPT ![c] = "exited"]
  /\ UNCHANGED <<bargs, built, toco_from_proto_bin, installed, nextName, ncalls, cid, args,
                 names, pending, result, obs>>

\* Lines 290-297: exit code 0 reads the output file, any other raises
\* ConverterError with the captured output; stderr is None (it was
\* redirected to stdout).
HandleExit(c) ==
  /\ pc[c] = "exited"
  /\ LET o == names[c].output_filename IN
       /\ pending' = [pending EXCEPT ![c] =
            IF proc[c].returncode = 0
            THEN IF o \in DOMAIN fs THEN Returned(Bytes(fs[o].content))
                 ELSE Raised(Exc("FileNotFoundError", <<>>))
            ELSE Raised(ConverterError(
                   FailureMessage(try_convert_to_unicode(proc[c].stdout),
                                  try_convert_to_unicode(None))))]
       /\ obs' = [obs EXCEPT ![c].foreign =
                    @ \/ (proc[c].returncode = 0 /\ Foreign(c, o))]
  /\ pc' = [pc EXCEPT ![c] = "finally"]
  /\ UNCHANGED <<bargs, built, toco_from_proto_bin, installed, fs, nextName, ncalls, cid,
                 args, names, proc, result>>

\* Lines 298-306: the finally block, then the call leaves as the try block
\* was left.
Finally(c) ==
  /\ pc[c] = "finally"
  /\ fs' = UnlinkAll(fs, CleanupList(names[c]))
  /\ obs' = [obs EXCEPT ![c].foreign =
                          @ \/ \E i \in 1..4 :
                                 Foreign(c, CleanupList(names[c])[i]),
                        ![c].swallowed =
                          {i \in 1..4 :
                             UnlinkFails(fs, CleanupList(names[c])[i])}]
  /\ result' = [result EXCEPT ![c] = pending[c]]
  /\ pc' = [pc EXCEPT ![c] = "done"]
  /\ UNCHANGED <<bargs, built, toco_from_proto_bin, installed, nextName, ncalls, cid, args,
                 names, proc, pending>>

\* The caller takes the outcome; its frame is gone.
Return(c) ==
  /\ pc[c] = "done"
  /\ pc' = [pc EXCEPT ![c] = "idle"]
  /\ args' = [args EXCEPT ![c] = NoArgs]
  /\ names' = [names EXCEPT ![c] = NoNames]
  /\ proc' = [proc EXCEPT ![c] = NoProc]
  /\ pending' = [pending EXCEPT ![c] = NoOutcome]
  /\ result' = [result EXCEPT ![c] = NoOutcome]
  /\ obs' = [obs EXCEPT ![c] = NoObs]
  /\ UNCHANGED <<bargs, built, toco_from_proto_bin, installed, fs, nextName, ncalls, cid>>

\* A converter that ignores the request for the MLIR converter.
SavedModelArgsWithoutMlir ==
  [model_flags_str |-> Bytes(<<77>>), toco_flags_str |-> Bytes(<<84>>),
   input_data_str |-> None, debug_info_str |-> None,
   enable_mlir_converter |-> FALSE]

\* Lines 658-663: what convert_saved_model passes to toco_convert_protos:
\* the two serialized protos, None, None and enable_mlir_converter=True.
SavedModelArgs ==
  [model_flags_str |-> Bytes(<<77>>), toco_flags_str |-> Bytes(<<84>>),
   input_data_str |-> None, debug_info_str |-> None,
   enable_mlir_converter |-> TRUE]

\* Lines 643-663: convert_saved_model builds the model flags and the
\* conversion flags and is about to call toco_convert_protos.
ConvertSavedModel(c) ==
  /\ pc[c] = "idle"
  /\ ncalls < MaxCalls
  /\ args' = [args EXCEPT ![c] = SavedModelArgs]
  /\ obs' = [obs EXCEPT ![c].via = "convert_saved_model"]
  /\ pc' = [pc EXCEPT ![c] = "saved_model"]
  /\ UNCHANGED <<bargs, built, toco_from_proto_bin, installed, fs, nextName, ncalls, cid,
                 names, proc, pending, result>>

\* The environment: the binary is installed or removed between calls.
Reinstall ==
  /\ installed' = ~installed
  /\ UNCHANGED <<bargs, built, toco_from_proto_bin, fs, nextName, ncalls, cid, pc, args,
                 names, proc, pending, result, obs>>

(***************************************************************************)
(* Inputs                                                                  *)
(***************************************************************************)
ModelFlagsStrs == {Bytes(<<77>>)}

TocoFlagsStrs == {Bytes(<<84>>)}

InputDataStrs == {None, Bytes(<<71>>), Str(<<233>>)}

DebugInfoStrs == {None, Bytes(<<68>>), Str(<<233>>)}

CallArgs ==
  [model_flags_str : ModelFlagsStrs, toco_flags_str : TocoFlagsStrs,
   input_data_str : InputDataStrs, debug_info_str : DebugInfoStrs,
   enable_mlir_converter : BOOLEAN]

\* What the in-process backend does.
InProcessOutcomes ==
  {Returned(Bytes(<<1, 2>>)),
   Raised(Exc("RuntimeError", <<>>)),
   Raised(Exc("RuntimeError", <<Str(<<111, 112>>).v>>)),
   Raised(Exc("ValueError", <<Str(<<233>>).v>>))}

\* What the backend process prints.
Stdouts == {Bytes(<<>>), Bytes(<<65>>), Bytes(<<195, 169>>), Bytes(<<65, 255>>)}

\* What the backend process writes to its output file.
OutputWrites == {None, Bytes(<<1, 2>>)}

ExitCodes == {0, 1}

Next ==
  \/ \E a \in CallArgs, r \in InProcessOutcomes : CallInProcess(1, a, r)
  \/ \E a \in CallArgs : CallNotFound(1, a)
  \/ \E a \in CallArgs : CallOutOfProcess(1, a)
  \/ \E k \in 0..4 : OpenInputFiles(1, k)
  \/ \E j \in 0..4 : WriteInputFiles(1, j)
  \/ \E ok \in BOOLEAN : ReserveOutput(1, ok)
  \/ \E ok \in BOOLEAN : Launch(1, ok)
  \/ \E code \in ExitCodes, out \in Stdouts, wr \in OutputWrites, rm \in 0..5 :
       BackendExit(1, code, out, wr, rm)
  \/ HandleExit(1)
  \/ Finally(1)
  \/ Return(1)
  \/ ConvertSavedModel(1)
  \/ Reinstall

Spec == Init /\ [][Next]_vars

(***************************************************************************)
(* Concurrent calls: every caller runs toco_convert_protos, the steps of   *)
(* the calls interleave.  The binary is on the PATH and stays there.       *)
(***************************************************************************)
ConcArgs ==
  {a \in CallArgs : a.input_data_str = Bytes(<<71>>) /\ a.debug_info_str = None}

ConcInit == Init /\ toco_from_proto_bin = "toco_from_protos" /\ installed

\* What a backend process does in the concurrent runs: exit code, write to
\* the output file, file removed.
ConcBackends ==
  {[code |-> 0, wr |-> Bytes(<<1, 2>>), rm |-> 0],
   [code |-> 1, wr |-> None, rm |-> 4]}

ConcNext ==
  \E c \in Callers :
    \/ \E a \in ConcArgs : CallInProcess(c, a, Returned(Bytes(<<1, 2>>)))
    \/ \E a \in ConcArgs : CallOutOfProcess(c, a)
    \/ \E k \in {2, 4} : OpenInputFiles(c, k)
    \/ WriteInputFiles(c, 4)
    \/ ReserveOutput(c, TRUE)
    \/ Launch(c, TRUE)
    \/ \E b \in ConcBackends : BackendExit(c, b.code, Bytes(<<65>>), b.wr, b.rm)
    \/ HandleExit(c)
    \/ Finally(c)
    \/ Return(c)

ConcSpec == ConcInit /\ [][ConcNext]_vars

(***************************************************************************)
(* Properties of toco_convert_protos                                       *)
(***************************************************************************)
\* t occurs in msg as a run of consecutive characters.
Contains(msg, t) ==
  \E i \in 0..(Len(msg) - Len(t)) : SubSeq(msg, i + 1, i + Len(t)) = t

\* The call of c went out of process.
OutOfProcess(c) == pc[c] \notin {"idle", "saved_model"} /\ ~obs[c].inproc

\* C1: when a call that took the out-of-process path exits, none of the
\* temporary files it created (model flags, conversion flags, input, debug
\* info, output) exists any more, whatever the exit path.
C1_AllTempFilesDeleted ==
  \A c \in Callers :
    pc[c] = "done" => obs[c].created \cap DOMAIN fs = {}

\* What the captured output reads as in the message: its text when it
\* decodes as UTF-8, else the bytes as Python prints them.
CapturedText(stdout) ==
  IF Utf8Valid(stdout.v) THEN Utf8Decode(stdout.v) ELSE PercentS(stdout)

\* C2: out of process, exit code 0 returns exactly the bytes the output file
\* holds, a nonzero exit code raises ConverterError whose message contains
\* the captured output, and bytes are returned only after exit code 0: never
\* after a nonzero exit code or an exception.
C2_ExitCodeDecidesOutcome ==
  \A c \in Callers :
    /\ (pc[c] \in {"finally", "done"} /\ proc[c].state = "exited"
        /\ proc[c].returncode # 0)
         => /\ pending[c].kind = "raise"
            /\ pending[c].exc.type = "ConverterError"
            /\ Len(pending[c].exc.args) = 1
            /\ Contains(pending[c].exc.args[1], CapturedText(proc[c].stdout))
    /\ (pc[c] = "finally" /\ proc[c].state = "exited"
        /\ proc[c].returncode = 0)
         => /\ names[c].output_filename \in DOMAIN fs
            /\ pending[c] =
                 Returned(Bytes(fs[names[c].output_filename].content))
    /\ (pc[c] \in {"finally", "done"} /\ OutOfProcess(c)
        /\ pending[c].kind = "return")
         => proc[c].state = "exited" /\ proc[c].returncode = 0
    /\ (pc[c] = "done" /\ OutOfProcess(c) /\ proc[c].state # "none")
         => result[c] = pending[c]

\* C2 witness: a backend that printed non-ASCII text and exited with code 1
\* has made the call raise ConverterError.
C2_Witness ==
  \E c \in Callers :
    /\ pc[c] = "done"
    /\ proc[c].state = "exited" /\ proc[c].returncode = 1
    /\ proc[c].stdout = Bytes(<<195, 169>>)
    /\ result[c].kind = "raise"

\* C4: the in-process backend is used exactly when enable_mlir_converter is
\* true or _toco_from_proto_bin is empty, and a call that uses it creates no
\* temporary file and spawns no process.
C4_InProcessExactlyWhenSelected ==
  \A c \in Callers :
    pc[c] \notin {"idle", "saved_model"} =>
      /\ obs[c].inproc <=>
           (args[c].enable_mlir_converter \/ toco_from_proto_bin = "")
      /\ obs[c].inproc =>
           (obs[c].created = {} /\ ~obs[c].spawned /\ proc[c].state = "none")

\* C4 witness: a call without enable_mlir_converter has used the in-process
\* backend because no binary path is configured.
C4_Witness ==
  \E c \in Callers :
    /\ pc[c] = "done" /\ obs[c].inproc
    /\ ~args[c].enable_mlir_converter
    /\ toco_from_proto_bin = ""

\* C5: in process, an exception of the backend reaches the caller as
\* ConverterError with the exception's message text (str(e)); no other
\* exception type leaves that path and no bytes are returned.
C5_InProcessErrorTranslated ==
  \A c \in Callers :
    (pc[c] = "done" /\ obs[c].inproc) =>
      IF obs[c].backend.kind = "raise"
      THEN /\ result[c].kind = "raise"
           /\ result[c].exc.type = "ConverterError"
           /\ result[c].exc.args =
                <<IF obs[c].backend.exc.args = <<>> THEN <<>>
                  ELSE obs[c].backend.exc.args[1]>>
      ELSE result[c] = obs[c].backend

\* C5 witness: the backend raised ValueError with a message and the call
\* raised ConverterError.
C5_Witness ==
  \E c \in Callers :
    /\ pc[c] = "done" /\ obs[c].inproc
    /\ obs[c].backend.kind = "raise"
    /\ obs[c].backend.exc.type = "ValueError"
    /\ result[c].exc.type = "ConverterError"

\* C6: a call that selects the out-of-process path looks the binary up when
\* it is made: if the binary is not found then, the call raises
\* ConverterError with the search-path guidance, having created no file and
\* spawned no process; if it is found, the call goes on.
C6_NotFoundRaisesBeforeAnyFile ==
  [][\A c \in Callers :
       (pc[c] \in {"idle", "saved_model"}
        /\ pc'[c] \notin {"idle", "saved_model"}
        /\ ~(args'[c].enable_mlir_converter \/ toco_from_proto_bin = ""))
         => IF installed
            THEN pc'[c] = "open" /\ result'[c] = NoOutcome
            ELSE /\ pc'[c] = "done"
                 /\ result'[c] = Raised(ConverterError(GuidanceText))
                 /\ obs'[c].created = {} /\ ~obs'[c].spawned
                 /\ proc'[c].state = "none"
                 /\ fs' = fs]_vars

\* C6 witness: the binary was there when the module was imported, is gone at
\* the call, and the call raised the guidance error.
C6_Witness ==
  \E c \in Callers :
    /\ pc[c] = "done"
    /\ toco_from_proto_bin = "datafile/toco_from_protos"
    /\ result[c] = Raised(ConverterError(GuidanceText))
    /\ obs[c].created = {}

\* The file n exists, is closed and holds exactly data.
Holds(f, n, data) ==
  n \in DOMAIN f /\ ~f[n].open /\ f[n].content = data

\* C7: when the backend is launched its positional arguments are, in order,
\* the file with the model flags, the file with the conversion flags, the
\* file with the input bytes and the empty output file, and
\* --debug_proto_file names a file with the debug info (empty when there is
\* none); all of them are written and closed by then.
C7_CommandNamesWrittenFiles ==
  [][\A c \in Callers :
       (pc[c] = "launch" /\ pc'[c] = "running") =>
         LET cmd == proc'[c].cmd
             a == args[c]
         IN /\ Len(cmd.positional) = 4
            /\ Holds(fs', cmd.positional[1], a.model_flags_str.v)
            /\ Holds(fs', cmd.positional[2], a.toco_flags_str.v)
            /\ Holds(fs', cmd.positional[3],
                     IF a.input_data_str.t = "str"
                     THEN Utf8Encode(a.input_data_str.v)
                     ELSE a.input_data_str.v)
            /\ Holds(fs', cmd.positional[4], <<>>)
            /\ Holds(fs', cmd.debug_proto_file,
                     IF a.debug_info_str.t = "None" THEN <<>>
                     ELSE IF a.debug_info_str.t = "str"
                          THEN Utf8Encode(a.debug_info_str.v)
                          ELSE a.debug_info_str.v)
            /\ Cardinality({cmd.positional[i] : i \in 1..4}
                           \cup {cmd.debug_proto_file}) = 5]_vars

\* C7 witness: a backend is running on a call without debug info, whose
\* debug file is there and empty.
C7_Witness ==
  \E c \in Callers :
    /\ pc[c] = "running"
    /\ args[c].debug_info_str = None
    /\ args[c].input_data_str = Str(<<233>>)
    /\ Holds(fs, proc[c].cmd.debug_proto_file, <<>>)

\* The file names a call holds in its variables and its command line.
HeldNames(c) ==
  ({names[c].toco_filename, names[c].model_filename, names[c].input_filename,
    names[c].debug_filename, names[c].output_filename}
   \cup {CmdFiles(proc[c].cmd)[i] : i \in 1..Len(CmdFiles(proc[c].cmd))})
  \ {NoName}

\* C8: with concurrent calls, every call writes, hands to its backend, reads
\* and deletes only files it created itself: no call touches a file of
\* another call, no two calls hold the same file name, and a file a call
\* holds was created by that call.
C8_CallsTouchOnlyOwnFiles ==
  \A c \in Callers :
    /\ ~obs[c].foreign
    /\ HeldNames(c) \subseteq obs[c].created
    /\ \A n \in HeldNames(c) \cap DOMAIN fs : fs[n].owner = cid[c]
    /\ \A d \in Callers \ {c} : HeldNames(c) \cap HeldNames(d) = {}

\* C8 witness: two calls have a backend running at the same time, each on
\* its own five files.
C8_Witness ==
  \E c \in Callers, d \in Callers :
    /\ c # d
    /\ pc[c] = "running" /\ pc[d] = "running"
    /\ Cardinality(HeldNames(c) \cup HeldNames(d)) = 10

(***************************************************************************)
(* The request builders                                                    *)
(***************************************************************************)
\* Bound: the most inputs a request has.
MaxInputs == 2

\* _quantized_inference_types (line 44)
quantized_inference_types == {"QUANTIZED_UINT8", "INT8"}

\* util.convert_dtype_to_tflite_type: the TFLite type of a TensorFlow dtype.
convert_dtype_to_tflite_type(dtype) ==
  IF dtype = "float32" THEN "FLOAT"
  ELSE IF dtype = "float16" THEN "FLOAT16"
  ELSE IF dtype = "int32" THEN "INT32"
  ELSE IF dtype = "int64" THEN "INT64"
  ELSE IF dtype = "string" THEN "STRING"
  ELSE IF dtype = "uint8" THEN "QUANTIZED_UINT8"
  ELSE IF dtype = "int16" THEN "QUANTIZED_INT16"
  ELSE IF dtype = "complex64" THEN "COMPLEX64"
  ELSE IF dtype = "bool" THEN "BOOL"
  ELSE "INT8"

\* _requires_input_stats (lines 50-53)
requires_input_stats(toco_flags) ==
  /\ \/ toco_flags.inference_type \in quantized_inference_types
     \/ toco_flags.inference_input_type \in quantized_inference_types
  /\ ~toco_flags.post_training_quantize

\* target_ops as passed: None, or a list of OpsSet members.
NoTargetOps == [given |-> FALSE, v |-> <<>>]

TargetOps(l) == [given |-> TRUE, v |-> l]

\* Only the first member of target_ops is looked at.
TargetOpsHead(target_ops) == {target_ops.v[1]}

\* set(target_ops)
TargetOpsSet(target_ops) == {target_ops.v[i] : i \in 1..Len(target_ops.v)}

\* The input type is taken from inference_type whatever is supplied.
build_toco_flags_input_type_ignored(a) ==
  [inference_type |-> convert_dtype_to_tflite_type(a.inference_type),
   inference_input_type |-> convert_dtype_to_tflite_type(a.inference_type),
   post_training_quantize |-> a.post_training_quantize,
   enable_select_tf_ops |->
     a.target_ops.v # <<>> /\ "SELECT_TF_OPS" \in TargetOpsSet(a.target_ops),
   force_select_tf_ops |->
     a.target_ops.v # <<>> /\ TargetOpsSet(a.target_ops) = {"SELECT_TF_OPS"}]

\* build_toco_flags (lines 328-365): the flags the builders and the claims
\* read.  A dtype is truthy, None is not (line 332); target_ops is falsy
\* when None or empty (line 354); the two select flags default to false.
build_toco_flags(a) ==
  LET inference_type == convert_dtype_to_tflite_type(a.inference_type)
      target_ops_given == a.target_ops.given /\ a.target_ops.v # <<>>
  IN [inference_type |-> inference_type,
      inference_input_type |->
        IF a.inference_input_type # "None"
        THEN convert_dtype_to_tflite_type(a.inference_input_type)
        ELSE inference_type,
      post_training_quantize |-> a.post_training_quantize,
      enable_select_tf_ops |->
        target_ops_given /\ "SELECT_TF_OPS" \in TargetOpsSet(a.target_ops),
      force_select_tf_ops |->
        target_ops_given /\ TargetOpsSet(a.target_ops) = {"SELECT_TF_OPS"}]

\* quantized_input_stats as passed: the keyword left out, None, or a list of
\* (mean, std) pairs.
StatsAbsent == [t |-> "absent", v |-> <<>>]

StatsNone == [t |-> "None", v |-> <<>>]

StatsList(l) == [t |-> "list", v |-> l]

\* bool(quantized_input_stats)
StatsGiven(stats) == stats.t = "list" /\ stats.v # <<>>

\* The entry of the first input, whatever the input.
StatsEntryOfFirst(stats, idx) == stats.v[1]

\* quantized_input_stats[idx] (lines 508 and 590-591), idx counted from 1.
StatsEntry(stats, idx) == stats.v[idx]

\* A dimension of a shape: None, an int, or a Dimension whose value is an
\* int or None.
DimNone == [k |-> "None", known |-> FALSE, v |-> 0]

DimInt(n) == [k |-> "int", known |-> TRUE, v |-> n]

Dimension(n) == [k |-> "Dimension", known |-> TRUE, v |-> n]

DimensionNone == [k |-> "Dimension", known |-> FALSE, v |-> 0]

\* Only a bare None is taken for an unknown dimension.
DimToIntBareNone(dim) == IF dim.k = "None" THEN -1 ELSE dim.v

\* Lines 519-523: a dimension of the request.
DimToInt(dim) ==
  IF dim.k = "None" \/ (dim.k = "Dimension" /\ ~dim.known) THEN -1 ELSE dim.v

\* A TensorShape: of unknown rank, or a list of dimensions.
UnknownRank == [rank_known |-> FALSE, dims |-> <<>>]

Shape(dims) == [rank_known |-> TRUE, dims |-> dims]

\* Lines 515-527: the shape of an input array of the request.
ShapeProto(shape) ==
  IF shape.rank_known
  THEN [dims |-> [j \in 1..Len(shape.dims) |-> DimToInt(shape.dims[j])],
        unknown_rank |-> FALSE]
  ELSE [dims |-> <<>>, unknown_rank |-> TRUE]

\* util.get_tensor_name: the tensor's name without the ":0" of a first
\* output.
get_tensor_name(tensor) ==
  IF tensor.name.port = 0 THEN [op |-> tensor.name.op, port |-> -1]
  ELSE tensor.name

\* Lines 498-527: the input array of the idx-th input tensor, or the
\* IndexError of a list that has no entry idx.
InputArray(a, toco, idx) ==
  LET tensor == a.input_tensors[idx]
      stats == requires_input_stats(toco) /\ StatsGiven(a.quantized_input_stats)
      shape == IF ~a.input_shapes.given THEN tensor.shape
               ELSE a.input_shapes.v[idx]
  IN IF stats /\ idx > Len(a.quantized_input_stats.v)
     THEN [error |-> "IndexError"]
     ELSE [error |-> "",
           name |-> IF a.saved_model_dir # "None" THEN tensor.name
                    ELSE get_tensor_name(tensor),
           data_type |-> convert_dtype_to_tflite_type(tensor.dtype),
           mean_value |->
             IF stats THEN StatsEntry(a.quantized_input_stats, idx)[1] ELSE 0,
           std_value |->
             IF stats THEN StatsEntry(a.quantized_input_stats, idx)[2] ELSE 0,
           shape |-> ShapeProto(shape)]

\* build_toco_convert_protos (lines 488-545): the model flags and the
\* conversion flags, or the exception of the first input that raises.
build_toco_convert_protos(a) ==
  LET toco == build_toco_flags(a)
      arrays == [idx \in 1..Len(a.input_tensors) |-> InputArray(a, toco, idx)]
      failed == {idx \in 1..Len(a.input_tensors) : arrays[idx].error # ""}
  IN IF failed # {}
     THEN [status |-> arrays[CHOOSE i \in failed : \A j \in failed : i <= j].error]
     ELSE [status |-> "ok",
           model |-> [input_arrays |-> arrays,
                      output_arrays |->
                        [i \in 1..Len(a.output_tensors) |->
                           IF a.saved_model_dir # "None"
                           THEN a.output_tensors[i].name
                           ELSE get_tensor_name(a.output_tensors[i])],
                      saved_model_dir |->
                        IF a.saved_model_dir # "None" THEN a.saved_model_dir
                        ELSE ""],
           toco |-> toco]

\* Lines 581-593: the input array of the idx-th (name, shape) pair, or the
\* exception raised there.
GraphDefInputArray(a, toco, idx) ==
  LET stats == a.quantized_input_stats
      entry == a.input_arrays_with_shape[idx]
  IN IF requires_input_stats(toco) /\ (stats.t = "absent" \/ ~StatsGiven(stats))
     THEN [error |-> "ValueError"]
     ELSE IF requires_input_stats(toco) /\ idx > Len(stats.v)
     THEN [error |-> "IndexError"]
     ELSE [error |-> "",
           name |-> entry.name,
           data_type |-> "IODATA_TYPE_UNKNOWN",
           mean_value |->
             IF requires_input_stats(toco) THEN StatsEntry(stats, idx)[1] ELSE 0,
           std_value |->
             IF requires_input_stats(toco) THEN StatsEntry(stats, idx)[2] ELSE 0,
           shape |-> [dims |-> entry.shape, unknown_rank |-> FALSE]]

\* toco_convert_graph_def up to the dispatch (lines 578-596): the request
\* handed to toco_convert_protos, or the exception raised before.
toco_convert_graph_def_request(a) ==
  LET b == build_toco_convert_protos(
             [a EXCEPT !.input_tensors = <<>>, !.output_tensors = <<>>])
      arrays == [idx \in 1..Len(a.input_arrays_with_shape) |->
                   GraphDefInputArray(a, b.toco, idx)]
      failed == {idx \in 1..Len(a.input_arrays_with_shape) :
                   arrays[idx].error # ""}
  IN IF failed # {}
     THEN [status |-> arrays[CHOOSE i \in failed : \A j \in failed : i <= j].error]
     ELSE [status |-> "ok",
           model |-> [input_arrays |-> arrays,
                      output_arrays |-> a.output_arrays,
                      saved_model_dir |->
                        IF a.saved_model_dir # "None" THEN a.saved_model_dir
                        ELSE ""],
           toco |-> b.toco]

\* A caller builds a request from tensors.
BuildTocoConvertProtos ==
  /\ bargs.fn = "build_toco_convert_protos"
  /\ built.status = "none"
  /\ built' = build_toco_convert_protos(bargs)
  /\ UNCHANGED <<bargs, toco_from_proto_bin, installed, fs, nextName, ncalls,
                 cid, pc, args, names, proc, pending, result, obs>>

\* A caller builds the conversion flags alone (as convert_saved_model does,
\* line 657).
BuildTocoFlags ==
  /\ bargs.fn = "build_toco_flags"
  /\ built.status = "none"
  /\ built' = [status |-> "ok", toco |-> build_toco_flags(bargs)]
  /\ UNCHANGED <<bargs, toco_from_proto_bin, installed, fs, nextName, ncalls,
                 cid, pc, args, names, proc, pending, result, obs>>

\* A caller builds a request from (name, shape) pairs.
TocoConvertGraphDef ==
  /\ bargs.fn = "toco_convert_graph_def"
  /\ built.status = "none"
  /\ built' = toco_convert_graph_def_request(bargs)
  /\ UNCHANGED <<bargs, toco_from_proto_bin, installed, fs, nextName, ncalls,
                 cid, pc, args, names, proc, pending, result, obs>>

(***************************************************************************)
(* Inputs of the builders                                                  *)
(***************************************************************************)
Dtypes == {"float32", "uint8", "int8"}

StatsPairs == {<<128, 127>>, <<3, 5>>}

RECURSIVE SeqsUpTo(_, _)
\* The sequences over S of length at most n.
SeqsUpTo(S, n) ==
  IF n = 0 THEN {<<>>}
  ELSE LET shorter == SeqsUpTo(S, n - 1)
       IN shorter \cup {Append(q, x) : q \in {r \in shorter : Len(r) = n - 1},
                                       x \in S}

StatsSamples ==
  {StatsAbsent, StatsNone} \cup
    {StatsList(l) : l \in SeqsUpTo(StatsPairs, MaxInputs)}

ShapeSamples ==
  {UnknownRank, Shape(<<>>), Shape(<<DimInt(1), DimNone>>),
   Shape(<<DimensionNone, Dimension(3)>>)}

TensorSamples ==
  {[name |-> [op |-> "x", port |-> 0], dtype |-> "float32", shape |-> sh] :
     sh \in ShapeSamples}

OutputTensorSamples ==
  {<<[name |-> [op |-> "y", port |-> 1], dtype |-> "float32",
      shape |-> UnknownRank]>>}

\* input_shapes: None, or one shape for every input tensor.
NoInputShapes == [given |-> FALSE, v |-> <<>>]

InputShapesFor(tensors) ==
  {NoInputShapes} \cup
    {[given |-> TRUE, v |-> [i \in 1..Len(tensors) |-> sh]] :
       sh \in {UnknownRank, Shape(<<DimInt(2)>>)}}

FlagSamples ==
  [inference_type : Dtypes, inference_input_type : Dtypes \cup {"None"},
   post_training_quantize : BOOLEAN]

SavedModelDirs == {"None", "/saved_model"}

\* The arguments of a call of build_toco_convert_protos.
TensorBuildArgs(f, st, ts, os, is, smd) ==
  [fn |-> "build_toco_convert_protos",
   inference_type |-> f.inference_type,
   inference_input_type |-> f.inference_input_type,
   post_training_quantize |-> f.post_training_quantize,
   quantized_input_stats |-> st,
   input_tensors |-> ts, output_tensors |-> os, input_shapes |-> is,
   saved_model_dir |-> smd, target_ops |-> NoTargetOps,
   input_arrays_with_shape |-> <<>>, output_arrays |-> <<>>]

NamedShapeSamples ==
  {[name |-> "x", shape |-> <<1, 3>>], [name |-> "z", shape |-> <<>>]}

\* The arguments of a call of toco_convert_graph_def.
GraphDefBuildArgs(f, st, ias) ==
  [fn |-> "toco_convert_graph_def",
   inference_type |-> f.inference_type,
   inference_input_type |-> f.inference_input_type,
   post_training_quantize |-> f.post_training_quantize,
   quantized_input_stats |-> st,
   input_tensors |-> <<>>, output_tensors |-> <<>>,
   input_shapes |-> NoInputShapes,
   saved_model_dir |-> "None", target_ops |-> NoTargetOps,
   input_arrays_with_shape |-> ias, output_arrays |-> <<"y">>]

\* Bound: the most members a target_ops list has.
MaxTargetOps == 2

\* The dtypes util.convert_dtype_to_tflite_type knows.
AllDtypes ==
  {"float32", "float16", "int32", "int64", "string", "uint8", "int8", "int16",
   "complex64", "bool"}

\* OpsSet (lines 81-110)
OpsSet ==
  {"TFLITE_BUILTINS", "SELECT_TF_OPS", "TFLITE_BUILTINS_INT8",
   "EXPERIMENTAL_TFLITE_BUILTINS_ACTIVATIONS_INT16_WEIGHTS_INT8"}

TargetOpsSamples ==
  {NoTargetOps} \cup {TargetOps(l) : l \in SeqsUpTo(OpsSet, MaxTargetOps)}

\* The arguments of a call of build_toco_flags.
FlagsBuildArgs(it, iit, ptq, tops) ==
  [fn |-> "build_toco_flags", inference_type |-> it,
   inference_input_type |-> iit, post_training_quantize |-> ptq,
   target_ops |-> tops]

BuildInit ==
  /\ DispatchInit
  /\ toco_from_proto_bin = "toco_from_protos"
  /\ installed
  /\ built = NoBuilt
  /\ \E f \in FlagSamples, st \in StatsSamples :
       \/ \E ts \in SeqsUpTo(TensorSamples, MaxInputs) :
            \E os \in OutputTensorSamples, is \in InputShapesFor(ts),
               smd \in SavedModelDirs :
              /\ st # StatsAbsent
              /\ bargs = TensorBuildArgs(f, st, ts, os, is, smd)
       \/ \E ias \in SeqsUpTo(NamedShapeSamples, MaxInputs) :
            bargs = GraphDefBuildArgs(f, st, ias)
       \/ \E it \in AllDtypes, iit \in AllDtypes \cup {"None"},
             tops \in TargetOpsSamples :
            /\ st = StatsAbsent
            /\ f.inference_type = "float32"
            /\ f.inference_input_type = "None"
            /\ bargs = FlagsBuildArgs(it, iit, f.post_training_quantize, tops)

BuildNext == BuildTocoConvertProtos \/ TocoConvertGraphDef \/ BuildTocoFlags

BuildSpec == BuildInit /\ [][BuildNext]_vars

(***************************************************************************)
(* Properties of the request builders                                      *)
(***************************************************************************)
\* The flags a builder computes from its arguments require input stats.
RequiresStats(a) ==
  /\ \/ a.inference_type \in {"uint8", "int8"}
     \/ a.inference_input_type \in {"uint8", "int8"}
  /\ ~a.post_training_quantize

\* The call is one of a request builder.
IsRequestBuilder(a) ==
  a.fn \in {"build_toco_convert_protos", "toco_convert_graph_def"}

\* The number of inputs of a request.
NumInputs(a) ==
  IF a.fn = "toco_convert_graph_def" THEN Len(a.input_arrays_with_shape)
  ELSE Len(a.input_tensors)

\* C3: when inference_type or inference_input_type is quantized and
\* post_training_quantize is false, building a request with
\* quantized_input_stats absent or empty fails with ValueError, in
\* build_toco_convert_protos and in toco_convert_graph_def, for any number
\* of inputs.
C3_MissingStatsRejected ==
  (built.status # "none" /\ IsRequestBuilder(bargs) /\ RequiresStats(bargs)
   /\ (bargs.quantized_input_stats.t # "list"
       \/ bargs.quantized_input_stats.v = <<>>))
    => built.status = "ValueError"

ShapeUsed(a, i) ==
  IF a.input_shapes.given THEN a.input_shapes.v[i] ELSE a.input_tensors[i].shape

\* C10: build_toco_convert_protos gives an input of known rank
\* unknown_rank = false and dims of the length and order of its shape, a
\* known dimension as it is and an unknown one (None, or a Dimension of value
\* None) as -1; an input of unknown rank gets unknown_rank = true and no
\* dims.  With input_shapes given the shape of input i is input_shapes[i].
C10_ShapeDimsCopied ==
  (built.status = "ok" /\ bargs.fn = "build_toco_convert_protos") =>
    /\ Len(built.model.input_arrays) = Len(bargs.input_tensors)
    /\ \A i \in 1..Len(bargs.input_tensors) :
         LET shape == ShapeUsed(bargs, i)
             proto == built.model.input_arrays[i].shape
         IN IF shape.rank_known
            THEN /\ proto.unknown_rank = FALSE
                 /\ Len(proto.dims) = Len(shape.dims)
                 /\ \A j \in 1..Len(shape.dims) :
                      proto.dims[j] =
                        IF shape.dims[j].known THEN shape.dims[j].v ELSE -1
            ELSE proto.unknown_rank = TRUE /\ proto.dims = <<>>

\* C10 witness: a request is built from a tensor whose shape has a Dimension
\* of value None and a known one, no input_shapes given.
C10_Witness ==
  /\ built.status = "ok"
  /\ bargs.fn = "build_toco_convert_protos"
  /\ ~bargs.input_shapes.given
  /\ Len(bargs.input_tensors) = 2
  /\ bargs.input_tensors[2].shape = Shape(<<DimensionNone, Dimension(3)>>)
  /\ built.model.input_arrays[2].shape.dims = <<-1, 3>>

\* C11: build_toco_flags sets inference_input_type to the converted
\* inference_type when inference_input_type is not supplied, for every
\* element type, and to the converted supplied value when one is supplied,
\* whatever inference_type is.
C11_InputTypeDefaultsToInferenceType ==
  built.status = "ok" =>
    /\ built.toco.inference_type =
         convert_dtype_to_tflite_type(bargs.inference_type)
    /\ built.toco.inference_input_type =
         IF bargs.inference_input_type = "None"
         THEN convert_dtype_to_tflite_type(bargs.inference_type)
         ELSE convert_dtype_to_tflite_type(bargs.inference_input_type)

\* C11 witness: flags are built with an input type supplied that differs
\* from inference_type.
C11_Witness ==
  /\ built.status = "ok"
  /\ bargs.fn = "build_toco_flags"
  /\ bargs.inference_type = "int16"
  /\ bargs.inference_input_type = "float32"
  /\ built.toco.inference_input_type = "FLOAT"
  /\ built.toco.inference_type = "QUANTIZED_INT16"

\* C12: build_toco_flags sets enable_select_tf_ops exactly when
\* SELECT_TF_OPS is a member of target_ops and force_select_tf_ops exactly
\* when target_ops, as a set, is {SELECT_TF_OPS}; with target_ops absent or
\* empty both are false.
C12_SelectTfOpsFlags ==
  built.status = "ok" =>
    LET members == {bargs.target_ops.v[i] : i \in 1..Len(bargs.target_ops.v)}
    IN /\ built.toco.enable_select_tf_ops <=> ("SELECT_TF_OPS" \in members)
       /\ built.toco.force_select_tf_ops <=> (members = {"SELECT_TF_OPS"})
       /\ (~bargs.target_ops.given \/ bargs.target_ops.v = <<>>) =>
            (~built.toco.enable_select_tf_ops
             /\ ~built.toco.force_select_tf_ops)

\* C12 witness: flags are built from target_ops holding the builtin and the
\* select option: select ops are enabled and not forced.
C12_Witness ==
  /\ built.status = "ok"
  /\ bargs.fn = "build_toco_flags"
  /\ bargs.target_ops = TargetOps(<<"TFLITE_BUILTINS", "SELECT_TF_OPS">>)
  /\ built.toco.enable_select_tf_ops
  /\ ~built.toco.force_select_tf_ops

\* C13: in the cleanup step a deletion that fails because the file is
\* already gone or because the name was never assigned is swallowed: the
\* call leaves cleanup with the outcome it entered it with, and every file
\* of the cleanup list that still exists is deleted, whichever deletions
\* failed before it; no other file is touched.
C13_CleanupFailuresSwallowed ==
  [][\A c \in Callers :
       (pc[c] = "finally" /\ pc'[c] = "done") =>
         LET listed == {names[c].toco_filename, names[c].input_filename,
                        names[c].model_filename, names[c].output_filename}
         IN /\ pending[c].kind \in {"return", "raise"}
            /\ result'[c] = pending[c]
            /\ listed \cap DOMAIN fs' = {}
            /\ \A n \in DOMAIN fs \ listed :
                 n \in DOMAIN fs' /\ fs'[n] = fs[n]]_vars

\* C13 witness: the conversion-flags file, first of the cleanup list, was
\* gone at cleanup; the model-flags file after it was still there and has
\* been deleted, and the call raised its ConverterError.
C13_Witness ==
  \E c \in Callers :
    /\ pc[c] = "done"
    /\ names[c].toco_filename # NoName
    /\ 1 \in obs[c].swallowed /\ 3 \notin obs[c].swallowed
    /\ names[c].model_filename \notin DOMAIN fs
    /\ result[c].kind = "raise" /\ result[c].exc.type = "ConverterError"

\* C14: once the four input files are created and their names recorded, a
\* call has left with the model-flags file, the conversion-flags file and
\* the input file deleted, and with the output file deleted when it was
\* reserved.
C14_NamedFilesDeletedOnExit ==
  \A c \in Callers :
    (pc[c] = "done" /\ names[c].toco_filename # NoName) =>
      /\ {names[c].model_filename, names[c].toco_filename,
          names[c].input_filename} \subseteq obs[c].created \ DOMAIN fs
      /\ names[c].output_filename # NoName =>
           names[c].output_filename \in obs[c].created \ DOMAIN fs

\* C14 witness: a call recorded its input files, failed before the output
\* file was reserved and has left with an exception.
C14_Witness ==
  \E c \in Callers :
    /\ pc[c] = "done"
    /\ names[c].toco_filename # NoName
    /\ names[c].model_filename # NoName
    /\ names[c].input_filename # NoName
    /\ names[c].output_filename = NoName
    /\ result[c].kind = "raise"

\* C15: a call with enable_mlir_converter true never goes past the
\* in-process path, so the command of the backend process never carries
\* --enable_mlir_converter.
C15_NoMlirFlagOutOfProcess ==
  \A c \in Callers :
    /\ pc[c] \in {"open", "write", "reserve", "launch", "running", "exited",
                  "finally"} => ~args[c].enable_mlir_converter
    /\ proc[c].state # "none" => ~proc[c].cmd.enable_mlir_converter
    /\ (pc[c] = "done" /\ args[c].enable_mlir_converter) =>
         (obs[c].inproc /\ proc[c].state = "none")

\* C15 witness: a backend process runs a command without the flag.
C15_Witness ==
  \E c \in Callers :
    /\ pc[c] = "running"
    /\ proc[c].state = "running"
    /\ proc[c].cmd.bin # ""
    /\ ~proc[c].cmd.enable_mlir_converter

\* C16: a call of convert_saved_model that has called toco_convert_protos
\* has used the in-process backend, whatever binary is configured or
\* installed: no temporary file, no process, None as input bytes and as
\* debug info, and a failure of the backend raised as ConverterError.
C16_SavedModelInProcess ==
  \A c \in Callers :
    (obs[c].via = "convert_saved_model" /\ pc[c] # "saved_model") =>
      /\ pc[c] = "done"
      /\ obs[c].inproc
      /\ obs[c].created = {} /\ ~obs[c].spawned /\ proc[c].state = "none"
      /\ obs[c].passed.input_data_str = None
      /\ obs[c].passed.debug_info_str = None
      /\ IF obs[c].backend.kind = "raise"
         THEN /\ result[c].kind = "raise"
              /\ result[c].exc.type = "ConverterError"
         ELSE result[c] = obs[c].backend

\* C16 witness: with a backend binary configured and installed,
\* convert_saved_model has raised ConverterError for a failure of the
\* in-process backend.
C16_Witness ==
  \E c \in Callers :
    /\ obs[c].via = "convert_saved_model"
    /\ pc[c] = "done"
    /\ toco_from_proto_bin # "" /\ installed
    /\ obs[c].backend.kind = "raise"
    /\ obs[c].backend.exc.type = "ValueError"
    /\ result[c].exc.type = "ConverterError"

====
